---- MODULE Spec2Model ----
(***************************************************************************)
(* Model of src/Shelly25/shelly_init.cpp: the start-up sequence of the     *)
(* Shelly 2.5 firmware.  CreatePeripherals (with the static helper         *)
(* PowerMeterInit) runs first, CreateComponents second; both run once, on  *)
(* one thread.  Every action is one statement (or one branch) of the file, *)
(* sequenced by pc, whose values are the line numbers the control is at.   *)
(***************************************************************************)
EXTENDS Integers, Sequences, FiniteSets, TLC

(* ---- bounds of the configuration values that are enumerated ---- *)
\* shelly.mode is drawn from 0..MaxMode (0 normal, 1 roller-shutter,
\* 2 garage-door, anything else is handled like normal).
MaxMode == 3
\* sw1.in_mode and sw2.in_mode are drawn from 0..MaxInMode.
MaxInMode == 4

(* ---- values ---- *)
\* wc1.in_mode after the static_cast at line 96: the four enumerators the
\* switch at line 105 names, and "other" for any value it does not name.
InModes == {"kSeparateMomentary", "kSeparateToggle", "kSingle", "kDetached", "other"}

NULL == "NULL"
NoInput == [id |-> 0, pin |-> 0, handlers |-> 0, inited |-> FALSE]
NoPM == [id |-> 0, chip |-> NULL, channel |-> 0]
NoTemp == [id |-> -1, vref10 |-> 0, rdiv |-> 0]
NoComp == [kind |-> "none", id |-> 0, primary |-> FALSE]

VARIABLES
  pc,          \* position of the start-up sequence
  cfg,         \* the persisted configuration (read-only)
  outputs,     \* std::vector<Output>      (CreatePeripherals, out)
  inputs,      \* std::vector<Input>       (CreatePeripherals, out)
  pms,         \* std::vector<PowerMeter>  (CreatePeripherals, out)
  sys_temp,    \* std::unique_ptr<TempSensor>
  s_ade7953,   \* the static chip handle
  in1, in2,    \* locals of CreatePeripherals
  pm1, pm2,    \* locals of PowerMeterInit
  st,          \* Status returned by PowerMeterInit ("none" before it returns)
  comps,       \* std::vector<Component>   (CreateComponents, in/out)
  accs,        \* std::vector<Accessory>   (CreateComponents, in/out)
  wc, gdo,     \* locals of CreateComponents
  initRes,     \* result of each fallible Init() call made so far
  calls        \* calls made to CreateHAPSwitch / CreateHAPInput, in order

vars == <<pc, cfg, outputs, inputs, pms, sys_temp, s_ade7953, in1, in2, pm1,
          pm2, st, comps, accs, wc, gdo, initRes, calls>>

periphVars == <<outputs, inputs, pms, sys_temp, s_ade7953, in1, in2, pm1, pm2, st>>
compVars == <<comps, accs, wc, gdo, calls>>

\* The bridge-primary accessory that exists before CreateComponents runs.
\* catSets counts the SetCategory calls made on the accessory.
PrimaryAccessory ==
  [aid |-> <<"BRIDGE", 0>>, category |-> "initial", catSets |-> 0, services |-> <<>>]

Configs ==
  [mode : 0..MaxMode, wc_in_mode : InModes, swap_inputs : BOOLEAN,
   legacy_hap_layout : BOOLEAN, sw1_in_mode : 0..MaxInMode,
   sw2_in_mode : 0..MaxInMode]

Init ==
  /\ pc = "cp_70"
  /\ cfg \in Configs
  /\ outputs = <<>> /\ inputs = <<>> /\ pms = <<>>
  /\ sys_temp = NoTemp
  /\ s_ade7953 = NULL
  /\ in1 = NoInput /\ in2 = NoInput
  /\ pm1 = NoPM /\ pm2 = NoPM
  /\ st = "none"
  /\ comps = <<>>
  /\ accs = <<PrimaryAccessory>>
  /\ wc = NoComp /\ gdo = NoComp
  /\ initRes = [pm1 |-> "none", pm2 |-> "none", wc |-> "none", gdo |-> "none"]
  /\ calls = <<>>

(***************************************************************************)
(* CreatePeripherals, lines 64-87                                          *)
(***************************************************************************)
OutputPin(id, pin, on_value) == [id |-> id, pin |-> pin, on_value |-> on_value]

\* line 70: outputs->emplace_back(new OutputPin(1, 4, 1))
NewOutput1 ==
  /\ pc = "cp_70"
  /\ outputs' = Append(outputs, OutputPin(1, 4, 1))
  /\ pc' = "cp_71"
  /\ UNCHANGED <<cfg, inputs, pms, sys_temp, s_ade7953, in1, in2, pm1, pm2, st,
                 initRes>>
  /\ UNCHANGED compVars

\* A build that leaves the second output for later: nothing is constructed
\* at line 71.
NewOutput2_Late ==
  /\ pc = "cp_71"
  /\ pc' = "cp_72"
  /\ UNCHANGED <<cfg, initRes>>
  /\ UNCHANGED periphVars
  /\ UNCHANGED compVars

\* line 71: outputs->emplace_back(new OutputPin(2, 15, 1))
NewOutput2 ==
  /\ pc = "cp_71"
  /\ outputs' = Append(outputs, OutputPin(2, 15, 1))
  /\ pc' = "cp_72"
  /\ UNCHANGED <<cfg, inputs, pms, sys_temp, s_ade7953, in1, in2, pm1, pm2, st,
                 initRes>>
  /\ UNCHANGED compVars

\* lines 72-73: in1 = new InputPin(1, 13, ...); in1->AddHandler(reset sequence)
NewInput1 ==
  /\ pc = "cp_72"
  /\ in1' = [id |-> 1, pin |-> 13, handlers |-> 1, inited |-> FALSE]
  /\ pc' = "cp_74"
  /\ UNCHANGED <<cfg, outputs, inputs, pms, sys_temp, s_ade7953, in2, pm1, pm2,
                 st, initRes>>
  /\ UNCHANGED compVars

\* line 74: in1->Init()
InitInput1 ==
  /\ pc = "cp_74"
  /\ in1' = [in1 EXCEPT !.inited = TRUE]
  /\ pc' = "cp_75"
  /\ UNCHANGED <<cfg, outputs, inputs, pms, sys_temp, s_ade7953, in2, pm1, pm2,
                 st, initRes>>
  /\ UNCHANGED compVars

\* line 75: inputs->emplace_back(in1)
EmplaceInput1 ==
  /\ pc = "cp_75"
  /\ inputs' = Append(inputs, in1)
  /\ pc' = "cp_76"
  /\ UNCHANGED <<cfg, outputs, pms, sys_temp, s_ade7953, in1, in2, pm1, pm2, st,
                 initRes>>
  /\ UNCHANGED compVars

\* line 76: in2 = new InputPin(2, 5, ...)
NewInput2 ==
  /\ pc = "cp_76"
  /\ in2' = [id |-> 2, pin |-> 5, handlers |-> 0, inited |-> FALSE]
  /\ pc' = "cp_77"
  /\ UNCHANGED <<cfg, outputs, inputs, pms, sys_temp, s_ade7953, in1, pm1, pm2,
                 st, initRes>>
  /\ UNCHANGED compVars

\* line 77: in2->Init()
InitInput2 ==
  /\ pc = "cp_77"
  /\ in2' = [in2 EXCEPT !.inited = TRUE]
  /\ pc' = "cp_78"
  /\ UNCHANGED <<cfg, outputs, inputs, pms, sys_temp, s_ade7953, in1, pm1, pm2,
                 st, initRes>>
  /\ UNCHANGED compVars

\* line 78: inputs->emplace_back(in2); line 80 then calls PowerMeterInit
EmplaceInput2 ==
  /\ pc = "cp_78"
  /\ inputs' = Append(inputs, in2)
  /\ pc' = "pm_45"
  /\ UNCHANGED <<cfg, outputs, pms, sys_temp, s_ade7953, in1, in2, pm1, pm2, st,
                 initRes>>
  /\ UNCHANGED compVars

(***************************************************************************)
(* PowerMeterInit, lines 35-62 (called at line 80)                         *)
(***************************************************************************)
ADE7953PowerMeter(id, chip, channel) == [id |-> id, chip |-> chip, channel |-> channel]

\* lines 45-50: s_ade7953 = mgos_ade7953_create(...); NULL returns UNAVAILABLE
CreateChip ==
  /\ pc = "pm_45"
  /\ \E h \in {NULL, "ade7953"} :
       /\ s_ade7953' = h
       /\ IF h = NULL
            THEN st' = "UNAVAILABLE" /\ pc' = "cp_81"
            ELSE st' = st /\ pc' = "pm_53"
  /\ UNCHANGED <<cfg, outputs, inputs, pms, sys_temp, in1, in2, pm1, pm2, initRes>>
  /\ UNCHANGED compVars

\* A build that registers the first meter as soon as its Init succeeded.
InitPM1_Eager ==
  /\ pc = "pm_53"
  /\ pm1' = ADE7953PowerMeter(1, s_ade7953, 1)
  /\ \E ok \in BOOLEAN :
       /\ initRes' = [initRes EXCEPT !.pm1 = IF ok THEN "ok" ELSE "fail"]
       /\ IF ok
            THEN st' = st /\ pc' = "pm_55" /\ pms' = Append(pms, pm1')
            ELSE st' = "INIT_FAILED" /\ pc' = "cp_81" /\ pms' = pms
  /\ UNCHANGED <<cfg, outputs, inputs, sys_temp, s_ade7953, in1, in2, pm2>>
  /\ UNCHANGED compVars

\* lines 53-54: pm1(new ADE7953PowerMeter(1, s_ade7953, 1)); Init or return st
InitPM1 ==
  /\ pc = "pm_53"
  /\ pm1' = ADE7953PowerMeter(1, s_ade7953, 1)
  /\ \E ok \in BOOLEAN :
       /\ initRes' = [initRes EXCEPT !.pm1 = IF ok THEN "ok" ELSE "fail"]
       /\ IF ok
            THEN st' = st /\ pc' = "pm_55"
            ELSE st' = "INIT_FAILED" /\ pc' = "cp_81"
  /\ UNCHANGED <<cfg, outputs, inputs, pms, sys_temp, s_ade7953, in1, in2, pm2>>
  /\ UNCHANGED compVars

\* lines 55-56: pm2(new ADE7953PowerMeter(2, s_ade7953, 0)); Init or return st
InitPM2 ==
  /\ pc = "pm_55"
  /\ pm2' = ADE7953PowerMeter(2, s_ade7953, 0)
  /\ \E ok \in BOOLEAN :
       /\ initRes' = [initRes EXCEPT !.pm2 = IF ok THEN "ok" ELSE "fail"]
       /\ IF ok
            THEN st' = st /\ pc' = "pm_58"
            ELSE st' = "INIT_FAILED" /\ pc' = "cp_81"
  /\ UNCHANGED <<cfg, outputs, inputs, pms, sys_temp, s_ade7953, in1, in2, pm1>>
  /\ UNCHANGED compVars

\* lines 58-61: both meters are moved into pms; return Status::OK()
EmplacePMs ==
  /\ pc = "pm_58"
  /\ pms' = Append(Append(pms, pm1), pm2)
  /\ pm1' = NoPM /\ pm2' = NoPM
  /\ st' = "OK"
  /\ pc' = "cp_81"
  /\ UNCHANGED <<cfg, outputs, inputs, sys_temp, s_ade7953, in1, in2, initRes>>
  /\ UNCHANGED compVars

\* A build in which a failed power bring-up ends CreatePeripherals.
LogStatus_Abort ==
  /\ pc = "cp_81"
  /\ pc' = IF st = "OK" THEN "cp_86" ELSE "cc_93"
  /\ UNCHANGED <<cfg, initRes>>
  /\ UNCHANGED periphVars
  /\ UNCHANGED compVars

\* lines 81-84: a status that is not OK is logged, nothing else
LogStatus ==
  /\ pc = "cp_81"
  /\ pc' = "cp_86"
  /\ UNCHANGED <<cfg, initRes>>
  /\ UNCHANGED periphVars
  /\ UNCHANGED compVars

\* line 86: sys_temp->reset(new TempSensorSDNT1608X103F3950(0, 3.3f, 33000.0f))
NewTempSensor ==
  /\ pc = "cp_86"
  /\ sys_temp' = [id |-> 0, vref10 |-> 33, rdiv |-> 33000]
  /\ pc' = "cc_93"
  /\ UNCHANGED <<cfg, outputs, inputs, pms, s_ade7953, in1, in2, pm1, pm2, st,
                 initRes>>
  /\ UNCHANGED compVars

CreatePeripherals ==
  \/ NewOutput1 \/ NewOutput2 \/ NewInput1 \/ InitInput1 \/ EmplaceInput1
  \/ NewInput2 \/ InitInput2 \/ EmplaceInput2 \/ LogStatus \/ NewTempSensor

PowerMeterInit == CreateChip \/ InitPM1 \/ InitPM2 \/ EmplacePMs

\* The values pc takes while control is inside CreatePeripherals.
InCreatePeripherals ==
  pc \in {"cp_70", "cp_71", "cp_72", "cp_74", "cp_75", "cp_76", "cp_77",
          "cp_78", "pm_45", "pm_53", "pm_55", "pm_58", "cp_81", "cp_86"}

(***************************************************************************)
(* CreateComponents, lines 89-169                                          *)
(***************************************************************************)
\* What an accessory's service list holds for a Component: its identity.
Ref(c) == <<c.kind, c.id>>

Accessory(aid, category) ==
  [aid |-> aid, category |-> category, catSets |-> 0, services |-> <<>>]

SetCategory(a, category) ==
  [a EXCEPT !.category = category, !.catSets = @ + 1]

AddService(a, svc) == [a EXCEPT !.services = Append(@, svc)]

\* The Component and Accessory lists and the record of collaborator calls,
\* threaded through consecutive collaborator calls.
Graph(cs, as, cl) == [comps |-> cs, accs |-> as, calls |-> cl]

\* hap::CreateHAPInput(id, cfg, comps, accs, svr): one pass-through input
\* Component on one new accessory of its own.  p is the primary flag the
\* collaborator gives the Component.
CreateHAPInput(id, p, g) ==
  LET hi == [kind |-> "input", id |-> id, primary |-> p]
      acc == AddService(Accessory(<<"INPUT", id>>, "BridgedAccessory"), Ref(hi))
  IN Graph(Append(g.comps, hi), Append(g.accs, acc),
           Append(g.calls, [fn |-> "CreateHAPInput", id |-> id, to_pri_acc |-> FALSE]))

\* CreateHAPSwitch(id, sw_cfg, in_cfg, comps, accs, svr, to_pri_acc): one
\* switch Component, on the bridge-primary accessory when to_pri_acc is set
\* and on a bridged accessory of its own otherwise.
CreateHAPSwitch(id, to_pri_acc, p, g) ==
  LET sw == [kind |-> "sw", id |-> id, primary |-> p]
      as == IF to_pri_acc
              THEN [g.accs EXCEPT ![1] = AddService(@, Ref(sw))]
              ELSE Append(g.accs,
                          AddService(Accessory(<<"SWITCH", id>>, "BridgedAccessory"),
                                     Ref(sw)))
  IN Graph(Append(g.comps, sw), as,
           Append(g.calls, [fn |-> "CreateHAPSwitch", id |-> id,
                            to_pri_acc |-> to_pri_acc]))

\* std::reverse(begin, end)
Reverse(s) == [i \in 1..Len(s) |-> s[Len(s) + 1 - i]]

\* A build in which a failed covering Init falls out of the roller-shutter
\* branch instead of returning.
WcNew_FallThrough ==
  /\ pc = "cc_93" /\ cfg.mode = 1
  /\ \E ok \in BOOLEAN :
       /\ initRes' = [initRes EXCEPT !.wc = IF ok THEN "ok" ELSE "fail"]
       /\ IF ok
            THEN wc' = [kind |-> "wc", id |-> 1, primary |-> FALSE] /\ pc' = "wc_104"
            ELSE wc' = wc /\ pc' = "cc_138"
  /\ UNCHANGED <<cfg, comps, accs, gdo, calls>>
  /\ UNCHANGED periphVars

\* lines 93-103: mode 1; the covering is constructed and initialised, and a
\* failed Init returns
WcNew ==
  /\ pc = "cc_93" /\ cfg.mode = 1
  /\ \E ok \in BOOLEAN :
       /\ initRes' = [initRes EXCEPT !.wc = IF ok THEN "ok" ELSE "fail"]
       /\ IF ok
            THEN wc' = [kind |-> "wc", id |-> 1, primary |-> FALSE] /\ pc' = "wc_104"
            ELSE wc' = wc /\ pc' = "done"
  /\ UNCHANGED <<cfg, comps, accs, gdo, calls>>
  /\ UNCHANGED periphVars

\* line 93, condition false
SkipRoller ==
  /\ pc = "cc_93" /\ cfg.mode # 1
  /\ pc' = "cc_138"
  /\ UNCHANGED <<cfg, initRes>>
  /\ UNCHANGED periphVars
  /\ UNCHANGED compVars

\* A build without the set_primary call.
WcSetPrimary_Missing ==
  /\ pc = "wc_104"
  /\ pc' = "wc_105"
  /\ UNCHANGED <<cfg, initRes>>
  /\ UNCHANGED periphVars
  /\ UNCHANGED compVars

\* line 104: wc->set_primary(true)
WcSetPrimary ==
  /\ pc = "wc_104"
  /\ wc' = [wc EXCEPT !.primary = TRUE]
  /\ pc' = "wc_105"
  /\ UNCHANGED <<cfg, comps, accs, gdo, calls, initRes>>
  /\ UNCHANGED periphVars

\* A build that sets the category but does not attach the covering.
WcPriAcc_NoService ==
  /\ pc = "wc_105"
  /\ cfg.wc_in_mode \in {"kSeparateMomentary", "kSeparateToggle"}
  /\ accs' = [accs EXCEPT ![1] = SetCategory(@, "WindowCoverings")]
  /\ pc' = "wc_134"
  /\ UNCHANGED <<cfg, comps, wc, gdo, calls, initRes>>
  /\ UNCHANGED periphVars

\* lines 106-113: the covering goes on the bridge-primary accessory
WcPriAcc ==
  /\ pc = "wc_105"
  /\ cfg.wc_in_mode \in {"kSeparateMomentary", "kSeparateToggle"}
  /\ accs' = [accs EXCEPT
                ![1] = AddService(SetCategory(@, "WindowCoverings"), Ref(wc))]
  /\ pc' = "wc_134"
  /\ UNCHANGED <<cfg, comps, wc, gdo, calls, initRes>>
  /\ UNCHANGED periphVars

\* lines 114-122: the covering goes on a new bridged accessory, after the
\* accessory information service
WcNewAcc ==
  /\ pc = "wc_105"
  /\ cfg.wc_in_mode \in {"kSingle", "kDetached"}
  /\ LET acc == AddService(
                  AddService(Accessory(<<"WINDOW_COVERING", 1>>, "BridgedAccessory"),
                             <<"accessory_information", 0>>),
                  Ref(wc))
     IN accs' = Append(accs, acc)
  /\ pc' = "wc_123"
  /\ UNCHANGED <<cfg, comps, wc, gdo, calls, initRes>>
  /\ UNCHANGED periphVars

\* A build with the swap_inputs test inverted.
WcInputs_Swapped ==
  /\ pc = "wc_123"
  /\ \E p1, p2 \in BOOLEAN :
       LET g0 == Graph(comps, accs, calls)
           g  == IF cfg.wc_in_mode = "kDetached"
                   THEN CreateHAPInput(2, p2, CreateHAPInput(1, p1, g0))
                   ELSE IF ~cfg.swap_inputs
                          THEN CreateHAPInput(1, p1, g0)
                          ELSE CreateHAPInput(2, p2, g0)
       IN comps' = g.comps /\ accs' = g.accs /\ calls' = g.calls
  /\ pc' = "wc_134"
  /\ UNCHANGED <<cfg, wc, gdo, initRes>>
  /\ UNCHANGED periphVars

\* lines 123-131: the pass-through inputs: both when detached, else input 1
\* if swap_inputs and input 2 if not
WcInputs ==
  /\ pc = "wc_123"
  /\ \E p1, p2 \in BOOLEAN :
       LET g0 == Graph(comps, accs, calls)
           g  == IF cfg.wc_in_mode = "kDetached"
                   THEN CreateHAPInput(2, p2, CreateHAPInput(1, p1, g0))
                   ELSE IF cfg.swap_inputs
                          THEN CreateHAPInput(1, p1, g0)
                          ELSE CreateHAPInput(2, p2, g0)
       IN comps' = g.comps /\ accs' = g.accs /\ calls' = g.calls
  /\ pc' = "wc_134"
  /\ UNCHANGED <<cfg, wc, gdo, initRes>>
  /\ UNCHANGED periphVars

\* lines 105, 133: the switch has no case for the value and no default
WcNoCase ==
  /\ pc = "wc_105"
  /\ cfg.wc_in_mode \notin
       {"kSeparateMomentary", "kSeparateToggle", "kSingle", "kDetached"}
  /\ pc' = "wc_134"
  /\ UNCHANGED <<cfg, initRes>>
  /\ UNCHANGED periphVars
  /\ UNCHANGED compVars

\* lines 134-135: comps->emplace_back(std::move(wc)); return
WcAppend ==
  /\ pc = "wc_134"
  /\ comps' = Append(comps, wc)
  /\ wc' = NoComp
  /\ pc' = "done"
  /\ UNCHANGED <<cfg, accs, gdo, calls, initRes>>
  /\ UNCHANGED periphVars

\* A build that sets the category before it looks at the result of Init.
GdoNew_CategoryFirst ==
  /\ pc = "cc_138" /\ cfg.mode = 2
  /\ accs' = [accs EXCEPT ![1] = SetCategory(@, "GarageDoorOpeners")]
  /\ \E ok \in BOOLEAN :
       /\ initRes' = [initRes EXCEPT !.gdo = IF ok THEN "ok" ELSE "fail"]
       /\ IF ok
            THEN gdo' = [kind |-> "gdo", id |-> 1, primary |-> FALSE] /\ pc' = "gdo_145"
            ELSE gdo' = gdo /\ pc' = "done"
  /\ UNCHANGED <<cfg, comps, wc, calls>>
  /\ UNCHANGED periphVars

\* lines 138-144: mode 2; the opener is constructed and initialised, and a
\* failed Init returns
GdoNew ==
  /\ pc = "cc_138" /\ cfg.mode = 2
  /\ \E ok \in BOOLEAN :
       /\ initRes' = [initRes EXCEPT !.gdo = IF ok THEN "ok" ELSE "fail"]
       /\ IF ok
            THEN gdo' = [kind |-> "gdo", id |-> 1, primary |-> FALSE] /\ pc' = "gdo_145"
            ELSE gdo' = gdo /\ pc' = "done"
  /\ UNCHANGED <<cfg, comps, accs, wc, calls>>
  /\ UNCHANGED periphVars

\* line 138, condition false
SkipGarage ==
  /\ pc = "cc_138" /\ cfg.mode # 2
  /\ pc' = "cc_154"
  /\ UNCHANGED <<cfg, initRes>>
  /\ UNCHANGED periphVars
  /\ UNCHANGED compVars

\* A build with the category of the roller-shutter branch pasted in.
GdoPriAcc_WrongCategory ==
  /\ pc = "gdo_145"
  /\ gdo' = [gdo EXCEPT !.primary = TRUE]
  /\ accs' = [accs EXCEPT
                ![1] = AddService(SetCategory(@, "WindowCoverings"), Ref(gdo'))]
  /\ pc' = "gdo_149"
  /\ UNCHANGED <<cfg, comps, wc, calls, initRes>>
  /\ UNCHANGED periphVars

\* lines 145-148: set_primary(true), then category and service on the
\* bridge-primary accessory
GdoPriAcc ==
  /\ pc = "gdo_145"
  /\ gdo' = [gdo EXCEPT !.primary = TRUE]
  /\ accs' = [accs EXCEPT
                ![1] = AddService(SetCategory(@, "GarageDoorOpeners"), Ref(gdo'))]
  /\ pc' = "gdo_149"
  /\ UNCHANGED <<cfg, comps, wc, calls, initRes>>
  /\ UNCHANGED periphVars

\* lines 149-150: comps->emplace_back(std::move(gdo)); return
GdoAppend ==
  /\ pc = "gdo_149"
  /\ comps' = Append(comps, gdo)
  /\ gdo' = NoComp
  /\ pc' = "done"
  /\ UNCHANGED <<cfg, accs, wc, calls, initRes>>
  /\ UNCHANGED periphVars

\* lines 154-156
compat_20 ==
  /\ cfg.legacy_hap_layout
  /\ cfg.sw1_in_mode # 3
  /\ cfg.sw2_in_mode # 3

\* lines 157-161: switch 1 then switch 2, to_pri_acc = false
SwForward ==
  /\ pc = "cc_154" /\ ~compat_20
  /\ \E p1, p2 \in BOOLEAN :
       LET g == CreateHAPSwitch(2, FALSE, p2,
                  CreateHAPSwitch(1, FALSE, p1, Graph(comps, accs, calls)))
       IN comps' = g.comps /\ accs' = g.accs /\ calls' = g.calls
  /\ pc' = "done"
  /\ UNCHANGED <<cfg, wc, gdo, initRes>>
  /\ UNCHANGED periphVars

\* A build without the std::reverse of line 167.
SwLegacy_NoReverse ==
  /\ pc = "cc_154" /\ compat_20
  /\ \E p1, p2 \in BOOLEAN :
       LET g == CreateHAPSwitch(1, TRUE, p1,
                  CreateHAPSwitch(2, TRUE, p2, Graph(comps, accs, calls)))
       IN comps' = g.comps /\ accs' = g.accs /\ calls' = g.calls
  /\ pc' = "done"
  /\ UNCHANGED <<cfg, wc, gdo, initRes>>
  /\ UNCHANGED periphVars

\* lines 162-168: switch 2 then switch 1, to_pri_acc = true, then the
\* Component list is reversed
SwLegacy ==
  /\ pc = "cc_154" /\ compat_20
  /\ \E p1, p2 \in BOOLEAN :
       LET g == CreateHAPSwitch(1, TRUE, p1,
                  CreateHAPSwitch(2, TRUE, p2, Graph(comps, accs, calls)))
       IN comps' = Reverse(g.comps) /\ accs' = g.accs /\ calls' = g.calls
  /\ pc' = "done"
  /\ UNCHANGED <<cfg, wc, gdo, initRes>>
  /\ UNCHANGED periphVars

CreateComponents ==
  \/ WcNew \/ SkipRoller \/ WcSetPrimary \/ WcPriAcc \/ WcNewAcc \/ WcInputs
  \/ WcNoCase \/ WcAppend \/ GdoNew \/ SkipGarage \/ GdoPriAcc \/ GdoAppend
  \/ SwForward \/ SwLegacy

Next == CreatePeripherals \/ PowerMeterInit \/ CreateComponents

Spec == Init /\ [][Next]_vars

(***************************************************************************)
(* Properties                                                              *)
(***************************************************************************)
Ids(s) == [i \in DOMAIN s |-> s[i].id]

Primaries == {i \in DOMAIN comps : comps[i].primary}

Coverings == {i \in DOMAIN comps : comps[i].kind = "wc"}

Openers == {i \in DOMAIN comps : comps[i].kind = "gdo"}

\* The accessories that carry service svc.
AccsWith(svc) ==
  {a \in DOMAIN accs : \E k \in DOMAIN accs[a].services : accs[a].services[k] = svc}

SwitchCalls == {i \in DOMAIN calls : calls[i].fn = "CreateHAPSwitch"}

InputCalls == [i \in DOMAIN calls |-> <<calls[i].fn, calls[i].id>>]

\* C1: once PowerMeterInit has returned, pms holds no meter or the two
\* meters 1 and 2, never one; it holds two exactly when the chip handle was
\* created and both Init calls succeeded.  At no point before does it hold
\* a single meter either.
C1_PowerMetersBothOrNeither ==
  /\ Len(pms) # 1
  /\ st # "none" =>
       /\ Len(pms) \in {0, 2}
       /\ Len(pms) = 2 <=>
            (s_ade7953 # NULL /\ initRes.pm1 = "ok" /\ initRes.pm2 = "ok")
       /\ Len(pms) = 2 => Ids(pms) = <<1, 2>>
       /\ (s_ade7953 = NULL \/ initRes.pm1 = "fail" \/ initRes.pm2 = "fail")
            => pms = <<>>

\* The second meter's Init failed after the first one's succeeded.
C1_Witness ==
  /\ st = "INIT_FAILED"
  /\ initRes.pm1 = "ok" /\ initRes.pm2 = "fail"
  /\ pms = <<>>

\* C2: whenever Init has been invoked on an Input, Outputs 1 and 2 have
\* both been constructed, in this order.
C2_OutputsBeforeInputInit ==
  (in1.inited \/ in2.inited \/ \E i \in DOMAIN inputs : inputs[i].inited)
    => Ids(outputs) = <<1, 2>>

\* Input 1 has just been initialised and is not yet in the list.
C2_Witness == pc = "cp_75" /\ in1.inited /\ inputs = <<>> /\ Len(outputs) = 2

\* C3 as stated: after CreateComponents returns, exactly one Component of
\* the list is primary, in every mode.
C3_ExactlyOnePrimaryAlways == pc = "done" => Cardinality(Primaries) = 1

\* C3 amended: after CreateComponents returns in mode 1 or 2, a failed Init
\* leaves the list empty (no primary Component at all), and a successful one
\* leaves exactly one covering (mode 1) or opener (mode 2) in the list, which
\* is primary.
C3_PrimaryIffInitOk ==
  (pc = "done" /\ cfg.mode \in {1, 2}) =>
    LET own == IF cfg.mode = 1 THEN Coverings ELSE Openers
        res == IF cfg.mode = 1 THEN initRes.wc ELSE initRes.gdo
    IN /\ res = "fail" => (comps = <<>> /\ Primaries = {})
       /\ res = "ok" => (Cardinality(own) = 1 /\ own \subseteq Primaries)
       /\ res \in {"ok", "fail"}

\* Roller-shutter, detached inputs, Init succeeded, CreateComponents returned.
C3_Witness ==
  /\ pc = "done" /\ cfg.mode = 1 /\ cfg.wc_in_mode = "kDetached"
  /\ initRes.wc = "ok"
  /\ Len(comps) = 3 /\ comps[3].kind = "wc" /\ comps[3].primary

\* C4: roller-shutter mode, Init succeeded, CreateComponents returned: the
\* separate sub-modes add no accessory and the covering is the only
\* Component; single adds the covering accessory and one input accessory,
\* input 1 if swap_inputs and input 2 if not; detached adds the covering
\* accessory and the accessories of inputs 1 and 2.
C4_RollerAccessories ==
  (pc = "done" /\ cfg.mode = 1 /\ initRes.wc = "ok") =>
    LET im == cfg.wc_in_mode
        sel == IF cfg.swap_inputs THEN 1 ELSE 2
        aids == [a \in DOMAIN accs |-> accs[a].aid]
    IN /\ im \in {"kSeparateMomentary", "kSeparateToggle"} =>
            /\ aids = <<<<"BRIDGE", 0>>>>
            /\ Len(comps) = 1 /\ comps[1].kind = "wc"
            /\ calls = <<>>
       /\ im = "kSingle" =>
            /\ aids = <<<<"BRIDGE", 0>>, <<"WINDOW_COVERING", 1>>, <<"INPUT", sel>>>>
            /\ InputCalls = <<<<"CreateHAPInput", sel>>>>
       /\ im = "kDetached" =>
            /\ aids = <<<<"BRIDGE", 0>>, <<"WINDOW_COVERING", 1>>, <<"INPUT", 1>>,
                        <<"INPUT", 2>>>>
            /\ InputCalls = <<<<"CreateHAPInput", 1>>, <<"CreateHAPInput", 2>>>>

\* Single sub-mode with swap_inputs set: input 1 is the one exposed.
C4_Witness ==
  /\ pc = "done" /\ cfg.mode = 1 /\ initRes.wc = "ok"
  /\ cfg.wc_in_mode = "kSingle" /\ cfg.swap_inputs
  /\ Len(accs) = 3 /\ accs[3].aid = <<"INPUT", 1>>

\* C5: normal mode, CreateComponents returned: the Components are switch 1
\* then switch 2, and both CreateHAPSwitch calls had to_pri_acc = true
\* exactly when the legacy flag is set and neither in_mode is 3.
C5_NormalOrder ==
  (pc = "done" /\ cfg.mode \notin {1, 2}) =>
    LET legacy == cfg.legacy_hap_layout /\ cfg.sw1_in_mode # 3 /\ cfg.sw2_in_mode # 3
    IN /\ Len(comps) = 2
       /\ comps[1].kind = "sw" /\ comps[2].kind = "sw"
       /\ Ids(comps) = <<1, 2>>
       /\ Len(calls) = 2
       /\ \A i \in DOMAIN calls :
            calls[i].fn = "CreateHAPSwitch" /\ calls[i].to_pri_acc = legacy
       /\ Ids(calls) = IF legacy THEN <<2, 1>> ELSE <<1, 2>>

\* The legacy layout applied.
C5_Witness ==
  /\ pc = "done" /\ cfg.mode = 0 /\ cfg.legacy_hap_layout
  /\ cfg.sw1_in_mode # 3 /\ cfg.sw2_in_mode # 3
  /\ Len(calls) = 2 /\ calls[1].id = 2 /\ calls[1].to_pri_acc

\* C6: in mode 1 or 2 CreateHAPSwitch is never called, whatever Init
\* returned; in any other mode no covering and no opener is constructed or
\* appended, and once CreateComponents has returned CreateHAPSwitch has been
\* called for switch 1 and for switch 2.
C6_OneModePerCall ==
  /\ cfg.mode \in {1, 2} =>
       /\ SwitchCalls = {}
       /\ \A i \in DOMAIN comps : comps[i].kind # "sw"
  /\ cfg.mode = 1 => (initRes.gdo = "none" /\ Openers = {})
  /\ cfg.mode = 2 => (initRes.wc = "none" /\ Coverings = {})
  /\ cfg.mode \notin {1, 2} =>
       /\ initRes.wc = "none" /\ initRes.gdo = "none"
       /\ wc = NoComp /\ gdo = NoComp
       /\ Coverings = {} /\ Openers = {}
       /\ pc = "done" => {calls[i].id : i \in SwitchCalls} = {1, 2}

\* Roller-shutter mode, the covering's Init failed, CreateComponents returned.
C6_Witness ==
  pc = "done" /\ cfg.mode = 1 /\ initRes.wc = "fail" /\ calls = <<>>

\* C7: in mode 1 or 2, when the covering's or the opener's Init has failed,
\* the Component list and the accessory list are what they were when
\* CreateComponents was entered, and no collaborator was called.
C7_FailedInitChangesNothing ==
  (cfg.mode \in {1, 2} /\ (initRes.wc = "fail" \/ initRes.gdo = "fail")) =>
    /\ pc = "done"
    /\ comps = <<>>
    /\ accs = <<PrimaryAccessory>>
    /\ calls = <<>>

\* Garage-door mode, the opener's Init failed.
C7_Witness == pc = "done" /\ cfg.mode = 2 /\ initRes.gdo = "fail"

\* C8: CreatePeripherals never stops short: while control is inside it a
\* step is enabled, and once it has returned there are Outputs 1 and 2,
\* Inputs 1 and 2 (both initialised) and the TempSensor, whatever
\* PowerMeterInit returned.  A failed PowerMeterInit leaves pms empty, and
\* the TempSensor exists only after PowerMeterInit has returned.
C8_PeripheralsComplete ==
  /\ InCreatePeripherals => ENABLED Next
  /\ ~InCreatePeripherals =>
       /\ Ids(outputs) = <<1, 2>>
       /\ Ids(inputs) = <<1, 2>>
       /\ \A i \in DOMAIN inputs : inputs[i].inited
       /\ sys_temp # NoTemp /\ sys_temp.id = 0
       /\ st \in {"OK", "UNAVAILABLE", "INIT_FAILED"}
  /\ st \in {"UNAVAILABLE", "INIT_FAILED"} =>
       /\ pms = <<>>
       /\ Ids(outputs) = <<1, 2>> /\ Ids(inputs) = <<1, 2>>
  /\ sys_temp # NoTemp => st # "none"

\* CreatePeripherals returned after the chip handle could not be created.
C8_Witness ==
  /\ pc = "cc_93" /\ st = "UNAVAILABLE" /\ s_ade7953 = NULL
  /\ sys_temp # NoTemp /\ pms = <<>>

\* The category that goes with a Component's role.
RoleCategory(kind) ==
  CASE kind = "wc" -> "WindowCoverings"
    [] kind = "gdo" -> "GarageDoorOpeners"
    [] OTHER -> "unspecified"

\* C9 as stated: after CreateComponents returns, the category of accessory 0
\* has been set exactly once, to the category of the primary covering or
\* opener.
C9_CategorySetOnceAlways ==
  pc = "done" =>
    /\ accs[1].catSets = 1
    /\ \A i \in Primaries :
         comps[i].kind \in {"wc", "gdo"} =>
           accs[1].category = RoleCategory(comps[i].kind)

\* C9 amended: after CreateComponents returns in mode 1 or 2, the category
\* of accessory 0 has been set at most once; it has been set once, to the
\* category of the covering or opener, exactly when Init succeeded and the
\* Component went on accessory 0 (mode 2, or mode 1 with a separate
\* sub-mode); otherwise it has not been set and is what it was.
C9_CategorySetOnceOnPrimaryAccessory ==
  (pc = "done" /\ cfg.mode \in {1, 2}) =>
    LET onPri == \/ cfg.mode = 2 /\ initRes.gdo = "ok"
                 \/ /\ cfg.mode = 1 /\ initRes.wc = "ok"
                    /\ cfg.wc_in_mode \in {"kSeparateMomentary", "kSeparateToggle"}
    IN /\ accs[1].catSets = IF onPri THEN 1 ELSE 0
       /\ onPri => /\ Len(comps) = 1 /\ comps[1].primary
                   /\ accs[1].category = RoleCategory(comps[1].kind)
                   /\ AccsWith(Ref(comps[1])) = {1}
       /\ ~onPri => accs[1] = PrimaryAccessory

\* Garage-door mode, Init succeeded: the category was set once.
C9_Witness ==
  /\ pc = "done" /\ cfg.mode = 2 /\ initRes.gdo = "ok"
  /\ accs[1].catSets = 1 /\ accs[1].category = "GarageDoorOpeners"

\* C10 as stated: roller-shutter mode, Init succeeded, any in_mode: the
\* covering is in the list at most once, it is appended by the last step
\* (when it is in the list CreateComponents has returned, so no wiring
\* follows), it is in the list once CreateComponents has returned, and from
\* the moment it is appended it is a service of exactly one accessory.
C10_AppendedOnceAttachedOnceAlways ==
  (cfg.mode = 1 /\ initRes.wc = "ok") =>
    /\ Cardinality(Coverings) <= 1
    /\ Coverings # {} => pc = "done"
    /\ pc = "done" =>
         /\ Cardinality(Coverings) = 1
         /\ Cardinality(AccsWith(<<"wc", 1>>)) = 1

\* C10 amended: as stated, except that the covering is a service of exactly
\* one accessory when in_mode is one of the four named sub-modes, and of no
\* accessory for any other value.
C10_AppendedOnceAttachedPerInMode ==
  (cfg.mode = 1 /\ initRes.wc = "ok") =>
    /\ Cardinality(Coverings) <= 1
    /\ Coverings # {} => pc = "done"
    /\ pc = "done" =>
         /\ Cardinality(Coverings) = 1
         /\ comps[Len(comps)].kind = "wc"
         /\ Cardinality(AccsWith(<<"wc", 1>>)) =
              IF cfg.wc_in_mode \in
                   {"kSeparateMomentary", "kSeparateToggle", "kSingle", "kDetached"}
                THEN 1 ELSE 0

\* An in_mode outside the four sub-modes: the covering is in the list and on
\* no accessory.
C10_Witness ==
  /\ pc = "done" /\ cfg.mode = 1 /\ initRes.wc = "ok"
  /\ cfg.wc_in_mode = "other"
  /\ Len(comps) = 1 /\ comps[1].kind = "wc"
  /\ AccsWith(<<"wc", 1>>) = {}

====
